---- MODULE Spec2Model ----
(***************************************************************************)
(* Anonymous diary backend (src/server.py): the moderation and engagement  *)
(* state machine.  The state is the SQLite database (tables entries,       *)
(* votes, reports, comments, comment_votes, comment_reports and their      *)
(* AUTOINCREMENT counters), the archive snapshot files and the audit log,  *)
(* and the wall clock.  Every request handler is a function from the       *)
(* database and the request to the database and the response, written as   *)
(* the sequence of its SQL statements, so that the same code is run either *)
(* to completion (Spec: one request after another) or statement by         *)
(* statement by several requests at once (SpecConc).                       *)
(*                                                                         *)
(* Integer columns (archived, deleted, is_pinned, manipulated) keep the    *)
(* values 0 and 1 of the schema.  Timestamps are whole days; a NULL        *)
(* deleted_at is NULL.  Text is a sequence of tokens (see sanitize).       *)
(***************************************************************************)
EXTENDS Integers, Sequences, FiniteSets, TLC

(* ------------------------------ bounds -------------------------------- *)
MaxEntries == 2
MaxTime == 14
MaxRows == 2
MaxViews == 1
MaxStored == 1
MaxProcs == 2

(* ------------------------- program constants -------------------------- *)
RECYCLE_BIN_RETENTION_DAYS == 7

NULL == -1

\* `import datetime` binds the name datetime to the module, and the module
\* has no attribute `now`: every `datetime.now(datetime.UTC)` (lines 420, 463,
\* 486, 498, 568, 598, 661) raises AttributeError.  The calls spelled
\* `datetime.datetime.now(datetime.UTC)` (lines 264, 272, 334, 808, 885) work.
datetime_has_now == FALSE

\* the six tables, the AUTOINCREMENT sequences, the archive directory and log,
\* the clock, the requests in flight, and cast: a castVote request has passed
\* the validation of api_vote (line 417)
VARIABLES entries, votes, reports, comments, comment_votes, comment_reports,
          seq, archive_files, archive_log, now, procs, cast

vars == <<entries, votes, reports, comments, comment_votes, comment_reports,
          seq, archive_files, archive_log, now, procs, cast>>

(* ------------------------------ inputs -------------------------------- *)
\* request metadata read by get_identifier: the user_id cookie, the split
\* X-Forwarded-For header and the remote address ("" when absent)
Metas == { [cookie |-> "a", xff |-> <<>>,    remote |-> "b"],
           [cookie |-> "",  xff |-> <<"a">>, remote |-> "b"],
           [cookie |-> "",  xff |-> <<>>,    remote |-> "b"] }

VoteValues == {1, -1, 0}
Deltas == {-1, 1}
TickDays == {RECYCLE_BIN_RETENTION_DAYS}
\* the limit query parameter: NULL is "not given" (NULL is -1: the negative
\* limit that is asked is -5)
Limits == {NULL, 1, 0 - 5}
\* text tokens: "t" a plain character, " " whitespace, "S" a whole
\* <script>...</script> block, "H" an on<word>=value attribute
Contents == { <<>>, <<"t">> }
Tags == { <<>> }

EntryIds == 1..MaxEntries
CommentIds == 1..MaxRows

(* ------------------------------ helpers ------------------------------- *)
get_identifier(m) ==
    IF m.cookie # "" THEN <<"cookie", m.cookie>>
    ELSE IF m.xff # <<>> THEN <<"ip", Head(m.xff)>>
    ELSE <<"ip", IF m.remote # "" THEN m.remote ELSE "0.0.0.0">>

RECURSIVE lstrip(_)
lstrip(s) == IF s # <<>> /\ Head(s) = " " THEN lstrip(Tail(s)) ELSE s

RECURSIVE rstrip(_)
rstrip(s) == IF s # <<>> /\ s[Len(s)] = " " THEN rstrip(SubSeq(s, 1, Len(s) - 1)) ELSE s

strip(s) == rstrip(lstrip(s))

IsMarkup(tok) == tok \in {"S", "H"}
KeepToken(tok) == ~IsMarkup(tok)

sanitize(text) ==
    IF text = <<>> THEN <<>> ELSE strip(SelectSeq(text, KeepToken))

\* number of characters of a token sequence
RECURSIVE TextLen(_)
TextLen(s) ==
    IF s = <<>> THEN 0
    ELSE (CASE Head(s) = "S" -> 17 [] Head(s) = "H" -> 9 [] OTHER -> 1) + TextLen(Tail(s))

\* SQL `a < b` on a nullable column: NULL compares as unknown, i.e. no match
SqlLess(a, b) == a # NULL /\ a < b

Remove(f, S) == [x \in DOMAIN f \ S |-> f[x]]

(* --------------------------- the database ----------------------------- *)
DB == [entries |-> entries, votes |-> votes, reports |-> reports,
       comments |-> comments, comment_votes |-> comment_votes,
       comment_reports |-> comment_reports, seq |-> seq,
       archive_files |-> archive_files, archive_log |-> archive_log]

SetDB(d) ==
    /\ entries' = d.entries
    /\ votes' = d.votes
    /\ reports' = d.reports
    /\ comments' = d.comments
    /\ comment_votes' = d.comment_votes
    /\ comment_reports' = d.comment_reports
    /\ seq' = d.seq
    /\ archive_files' = d.archive_files
    /\ archive_log' = d.archive_log

\* init_db on a fresh data.db: every table empty, every counter 0
init_db ==
    [entries |-> << >>, votes |-> {}, reports |-> {}, comments |-> << >>,
     comment_votes |-> {}, comment_reports |-> {},
     seq |-> [entries |-> 0, votes |-> 0, reports |-> 0, comments |-> 0,
              comment_votes |-> 0, comment_reports |-> 0],
     archive_files |-> {}, archive_log |-> << >>]

\* SUM(CASE WHEN vote=1 ...) / SUM(CASE WHEN vote=-1 ...) / COUNT(*) of a target
Upvotes(ledger, t) == Cardinality({r \in ledger : r.target = t /\ r.vote = 1})
Downvotes(ledger, t) == Cardinality({r \in ledger : r.target = t /\ r.vote = 0 - 1})
ReportCount(ledger, t) == Cardinality({r \in ledger : r.target = t})

\* rows of a ledger for (target, identifier, identifier_type)
RowsOf(ledger, t, ident) ==
    {r \in ledger : r.target = t /\ r.identifier = ident[2] /\ r.identifier_type = ident[1]}

\* cur.fetchone(): the first row of the result, lowest rowid first
FetchOne(rows) == CHOOSE r \in rows : \A q \in rows : r.id <= q.id

(* --------------------------- requests --------------------------------- *)
NoArgs == [id |-> 0, meta |-> [cookie |-> "", xff |-> <<>>, remote |-> ""],
           v |-> 0, w |-> 0, text |-> <<>>, tags |-> <<>>, admin |-> FALSE]

NoLocals == [content |-> <<>>, existing |-> 0, ident |-> <<"", "">>,
             cnt |-> 0, up |-> 0, archived |-> FALSE]

NoBody == [status |-> 0, message |-> "", id |-> NULL, vote |-> 0,
           upvotes |-> NULL, downvotes |-> NULL, reports |-> NULL,
           flag |-> FALSE, list |-> <<>>]

Idle == [op |-> "idle", pc |-> "done", a |-> NoArgs, l |-> NoLocals, r |-> NoBody]

Request(op, a) == [op |-> op, pc |-> "start", a |-> a, l |-> NoLocals, r |-> NoBody]

Result(d, p) == [d |-> d, p |-> p]

\* return jsonify({'message': message}), status
Return(p, status, message) ==
    [p EXCEPT !.pc = "done", !.r = [NoBody EXCEPT !.status = status, !.message = message]]

\* an uncaught exception: Flask answers 500 and the connection is closed
\* with nothing committed
Raise(p) == Return(p, 500, "AttributeError")

Goto(p, pc) == [p EXCEPT !.pc = pc]

(* ------------------------- entry API handlers ------------------------- *)
\* POST /api/submit
\* the INSERT on a table whose id is a plain rowid (no AUTOINCREMENT): the new
\* id is one more than the largest id in the table
api_submit_code_rowid(d, p, t) ==
    LET content == strip(p.a.text)
        tags == strip(p.a.tags)
    IN  IF content = <<>> THEN Result(d, Return(p, 400, "Contenido vacio"))
        ELSE IF TextLen(content) > 2000
        THEN Result(d, Return(p, 400, "Contenido demasiado largo"))
        ELSE
          LET ids == DOMAIN d.entries
              id == IF ids = {} THEN 1
                    ELSE (CHOOSE m \in ids : \A k \in ids : k <= m) + 1
              row == [content |-> sanitize(content), tags |-> tags,
                      upvotes |-> 0, downvotes |-> 0,
                      archived |-> 0, deleted |-> 0, deleted_at |-> NULL,
                      is_pinned |-> 0, view_count |-> 0, manipulated |-> 0]
          IN  Result([d EXCEPT !.entries = (id :> row) @@ d.entries,
                               !.seq.entries = id],
                     [Return(p, 201, "ok") EXCEPT !.r.id = id])

api_submit_code(d, p, t) ==
    LET content == strip(p.a.text)
        tags == strip(p.a.tags)
    IN  IF content = <<>> THEN Result(d, Return(p, 400, "Contenido vacio"))
        ELSE IF TextLen(content) > 2000
        THEN Result(d, Return(p, 400, "Contenido demasiado largo"))
        ELSE
          LET id == d.seq.entries + 1
              row == [content |-> sanitize(content), tags |-> tags,
                      upvotes |-> 0, downvotes |-> 0,
                      archived |-> 0, deleted |-> 0, deleted_at |-> NULL,
                      is_pinned |-> 0, view_count |-> 0, manipulated |-> 0]
          IN  Result([d EXCEPT !.entries = (id :> row) @@ d.entries,
                               !.seq.entries = id],
                     [Return(p, 201, "ok") EXCEPT !.r.id = id])

\* variant: the sweep goes by deleted_at alone
cleanup_deleted_entries_by_date(d, t) ==
    LET cutoff_date == t - RECYCLE_BIN_RETENTION_DAYS
        old == {e \in DOMAIN d.entries : SqlLess(d.entries[e].deleted_at, cutoff_date)}
    IN  [d EXCEPT !.entries = Remove(d.entries, old)]

\* DELETE FROM entries WHERE deleted=1 AND deleted_at < cutoff
cleanup_deleted_entries(d, t) ==
    LET cutoff_date == t - RECYCLE_BIN_RETENTION_DAYS
        old == {e \in DOMAIN d.entries :
                  d.entries[e].deleted = 1 /\ SqlLess(d.entries[e].deleted_at, cutoff_date)}
    IN  [d EXCEPT !.entries = Remove(d.entries, old)]

\* variant: ORDER BY e.id DESC alone
Before_by_id(d, x, y) == x > y

\* ORDER BY e.is_pinned DESC, e.id DESC
Before(d, x, y) ==
    \/ d.entries[x].is_pinned > d.entries[y].is_pinned
    \/ d.entries[x].is_pinned = d.entries[y].is_pinned /\ x > y

RECURSIVE OrderBy(_, _)
OrderBy(d, S) ==
    IF S = {} THEN <<>>
    ELSE LET first == CHOOSE x \in S : \A y \in S \ {x} : Before(d, x, y)
         IN  <<first>> \o OrderBy(d, S \ {first})

\* LIMIT n: a negative n is no limit
SqlLimit(s, n) == IF n < 0 \/ n >= Len(s) THEN s ELSE SubSeq(s, 1, n)

EntryView(d, e) ==
    [id |-> e, content |-> d.entries[e].content, tags |-> d.entries[e].tags,
     is_pinned |-> d.entries[e].is_pinned, view_count |-> d.entries[e].view_count,
     manipulated |-> d.entries[e].manipulated,
     upvotes |-> Upvotes(d.votes, e), downvotes |-> Downvotes(d.votes, e),
     reports |-> ReportCount(d.reports, e)]

\* the SELECT of api_entries
PublicListing(d, limit) ==
    LET ids == SqlLimit(OrderBy(d, {e \in DOMAIN d.entries :
                         d.entries[e].archived = 0 /\ d.entries[e].deleted = 0}), limit)
    IN  [i \in 1..Len(ids) |-> EntryView(d, ids[i])]

Min(a, b) == IF a < b THEN a ELSE b

\* GET /api/entries
api_entries_code(d, p, t) ==
    LET d1 == cleanup_deleted_entries(d, t)
        limit == Min(100, IF p.a.v = NULL THEN 20 ELSE p.a.v)
    IN  Result(d1, [Return(p, 200, "") EXCEPT !.r.list = PublicListing(d1, limit)])

\* SELECT COUNT / SUM of the votes of one target
Counts(ledger, t) == [upvotes |-> Upvotes(ledger, t), downvotes |-> Downvotes(ledger, t)]

\* UPDATE <ledger> SET vote=? WHERE id=?
UpdateVote(ledger, rowid, vote) ==
    {IF r.id = rowid THEN [r EXCEPT !.vote = vote] ELSE r : r \in ledger}

\* INSERT INTO <ledger> (target, identifier, identifier_type, vote)
InsertRow(ledger, rowid, target, ident, vote) ==
    ledger \cup {[id |-> rowid, target |-> target, identifier |-> ident[2],
                  identifier_type |-> ident[1], vote |-> vote]}

\* variant: the archived flag of the entry is not looked at
api_vote_start_unlocked(d, p) ==
    IF p.a.v \notin {1, 0 - 1} THEN Result(d, Return(p, 400, "Invalid vote"))
    ELSE IF p.a.id \notin DOMAIN d.entries
    THEN Result(d, Return(p, 404, "Entry not found"))
    ELSE Result(d, Goto(p, "existing"))

\* POST /api/vote: the vote is validated and the entry is looked up
api_vote_start(d, p) ==
    IF p.a.v \notin {1, 0 - 1} THEN Result(d, Return(p, 400, "Invalid vote"))
    ELSE IF p.a.id \notin DOMAIN d.entries
    THEN Result(d, Return(p, 404, "Entry not found"))
    ELSE IF d.entries[p.a.id].archived # 0
    THEN Result(d, Return(p, 410, "Entry archived"))
    ELSE Result(d, Goto(p, "existing"))

\* variant: the existing vote is not looked up, every cast goes to the INSERT
api_vote_existing_unchecked(d, p) ==
    Result(d, [Goto(p, "write") EXCEPT !.l.ident = get_identifier(p.a.meta),
                                      !.l.existing = 0])

\* the identifier is resolved, ts is taken, the existing vote is looked up
api_vote_existing(d, p) ==
    IF ~datetime_has_now THEN Result(d, Raise(p))
    ELSE
      LET ident == get_identifier(p.a.meta)
          rows == RowsOf(d.votes, p.a.id, ident)
      IN  IF rows # {}
          THEN IF FetchOne(rows).vote = p.a.v
               THEN Result(d, [Return(p, 200, "Already voted") EXCEPT !.r.vote = p.a.v])
               ELSE Result(d, [Goto(p, "write") EXCEPT !.l.ident = ident,
                                                     !.l.existing = FetchOne(rows).id])
          ELSE Result(d, [Goto(p, "write") EXCEPT !.l.ident = ident, !.l.existing = 0])

\* UPDATE or INSERT, then commit
api_vote_write(d, p) ==
    IF p.l.existing # 0
    THEN Result([d EXCEPT !.votes = UpdateVote(d.votes, p.l.existing, p.a.v)],
                Goto(p, "counts"))
    ELSE Result([d EXCEPT !.votes = InsertRow(d.votes, d.seq.votes + 1, p.a.id,
                                              p.l.ident, p.a.v),
                          !.seq.votes = d.seq.votes + 1],
                Goto(p, "counts"))

\* the counts are computed from the ledger and returned
api_vote_counts(d, p) ==
    Result(d, [Return(p, 200, "ok") EXCEPT
                 !.r.upvotes = Counts(d.votes, p.a.id).upvotes,
                 !.r.downvotes = Counts(d.votes, p.a.id).downvotes])

api_vote_code(d, p) ==
    CASE p.pc = "start" -> api_vote_start(d, p)
      [] p.pc = "existing" -> api_vote_existing(d, p)
      [] p.pc = "write" -> api_vote_write(d, p)
      [] p.pc = "counts" -> api_vote_counts(d, p)

\* `reports_cnt / up > 0.25`: with float division of two small integers this
\* is 4 * reports_cnt > up (0.25 is exact in binary floating point)
OverQuarter(reports_cnt, up) == 4 * reports_cnt > up

\* `reports_cnt / upvotes > 0.1`: the float 0.1 is the quotient 1/10 rounded,
\* so r/u > 0.1 exactly when 10 * r > u
OverTenth(reports_cnt, up) == 10 * reports_cnt > up

\* POST /api/report: the entry is looked up
api_report_start(d, p) ==
    IF p.a.id \notin DOMAIN d.entries
    THEN Result(d, Return(p, 404, "Entry not found"))
    ELSE IF d.entries[p.a.id].archived # 0
    THEN Result(d, Return(p, 200, "Entry already archived"))
    ELSE Result(d, [Goto(p, "existing") EXCEPT !.l.content = d.entries[p.a.id].content])

\* prevent duplicate reports from same identifier
api_report_existing(d, p) ==
    LET ident == get_identifier(p.a.meta) IN
    IF RowsOf(d.reports, p.a.id, ident) # {}
    THEN Result(d, Return(p, 200, "Already reported"))
    ELSE Result(d, [Goto(p, "write") EXCEPT !.l.ident = ident])

\* ts is taken, the report is inserted and committed
api_report_write(d, p) ==
    IF ~datetime_has_now THEN Result(d, Raise(p))
    ELSE Result([d EXCEPT !.reports = InsertRow(d.reports, d.seq.reports + 1,
                                                p.a.id, p.l.ident, 0),
                          !.seq.reports = d.seq.reports + 1],
                Goto(p, "counts"))

\* compute counts
api_report_counts(d, p) ==
    Result(d, [Goto(p, "archive") EXCEPT
                 !.l.cnt = ReportCount(d.reports, p.a.id),
                 !.l.up = Upvotes(d.votes, p.a.id)])

\* If more than 25% of the upvotes reported the post -> archive
api_report_archive(d, p) ==
    LET hit == p.l.up > 0 /\ OverQuarter(p.l.cnt, p.l.up)
        \* UPDATE entries SET archived=1 WHERE id=?
        d1 == IF hit /\ p.a.id \in DOMAIN d.entries
              THEN [d EXCEPT !.entries[p.a.id].archived = 1] ELSE d
        \* the snapshot and the log line are built with datetime.now, inside
        \* the try whose handler passes
        d2 == IF hit /\ datetime_has_now
              THEN [d1 EXCEPT !.archive_files = d1.archive_files \cup {p.a.id},
                              !.archive_log = Append(d1.archive_log, p.a.id)]
              ELSE d1
    IN  Result(d2, [Return(p, 200, "ok") EXCEPT !.r.reports = p.l.cnt, !.r.flag = hit])

api_report_code(d, p) ==
    CASE p.pc = "start" -> api_report_start(d, p)
      [] p.pc = "existing" -> api_report_existing(d, p)
      [] p.pc = "write" -> api_report_write(d, p)
      [] p.pc = "counts" -> api_report_counts(d, p)
      [] p.pc = "archive" -> api_report_archive(d, p)

(* ------------------------- comment handlers --------------------------- *)
\* POST /api/comments: the content is sanitized and checked, the entry looked up
api_post_comment_start(d, p) ==
    LET content == sanitize(p.a.text) IN
    IF content = <<>> THEN Result(d, Return(p, 400, "Comentario vacio"))
    ELSE IF TextLen(content) > 500
    THEN Result(d, Return(p, 400, "Comentario demasiado largo"))
    ELSE IF p.a.id \notin DOMAIN d.entries
    THEN Result(d, Return(p, 404, "Entry not found"))
    ELSE IF d.entries[p.a.id].archived # 0
    THEN Result(d, Return(p, 410, "Cannot comment on archived entry"))
    ELSE IF d.entries[p.a.id].deleted # 0
    THEN Result(d, Return(p, 410, "Cannot comment on deleted entry"))
    ELSE Result(d, [Goto(p, "write") EXCEPT !.l.content = content])

\* the identifier is resolved, ts is taken, the comment is inserted
api_post_comment_write(d, p) ==
    IF ~datetime_has_now THEN Result(d, Raise(p))
    ELSE
      LET ident == get_identifier(p.a.meta)
          id == d.seq.comments + 1
          row == [entry_id |-> p.a.id, content |-> p.l.content,
                  identifier |-> ident[2], identifier_type |-> ident[1],
                  upvotes |-> 0, downvotes |-> 0, deleted |-> 0]
      IN  Result([d EXCEPT !.comments = (id :> row) @@ d.comments,
                           !.seq.comments = id],
                 [Return(p, 201, "ok") EXCEPT !.r.id = id])

api_post_comment_code(d, p) ==
    CASE p.pc = "start" -> api_post_comment_start(d, p)
      [] p.pc = "write" -> api_post_comment_write(d, p)

\* POST /api/comment-vote: the vote is validated and the comment looked up
api_comment_vote_start(d, p) ==
    IF p.a.v \notin {1, 0 - 1} THEN Result(d, Return(p, 400, "Invalid vote"))
    ELSE IF p.a.id \notin DOMAIN d.comments
    THEN Result(d, Return(p, 404, "Comment not found"))
    ELSE Result(d, Goto(p, "existing"))

\* the identifier is resolved, ts is taken, the existing vote is looked up
api_comment_vote_existing(d, p) ==
    IF ~datetime_has_now THEN Result(d, Raise(p))
    ELSE
      LET ident == get_identifier(p.a.meta)
          rows == RowsOf(d.comment_votes, p.a.id, ident)
      IN  IF rows # {}
          THEN IF FetchOne(rows).vote = p.a.v
               THEN Result(d, [Return(p, 200, "Already voted") EXCEPT !.r.vote = p.a.v])
               ELSE Result(d, [Goto(p, "write") EXCEPT !.l.ident = ident,
                                                     !.l.existing = FetchOne(rows).id])
          ELSE Result(d, [Goto(p, "write") EXCEPT !.l.ident = ident, !.l.existing = 0])

\* UPDATE or INSERT, then commit
api_comment_vote_write(d, p) ==
    IF p.l.existing # 0
    THEN Result([d EXCEPT !.comment_votes =
                             UpdateVote(d.comment_votes, p.l.existing, p.a.v)],
                Goto(p, "counts"))
    ELSE Result([d EXCEPT !.comment_votes =
                             InsertRow(d.comment_votes, d.seq.comment_votes + 1,
                                       p.a.id, p.l.ident, p.a.v),
                          !.seq.comment_votes = d.seq.comment_votes + 1],
                Goto(p, "counts"))

\* Get vote counts
api_comment_vote_counts(d, p) ==
    Result(d, [Return(p, 200, "ok") EXCEPT
                 !.r.upvotes = Counts(d.comment_votes, p.a.id).upvotes,
                 !.r.downvotes = Counts(d.comment_votes, p.a.id).downvotes])

api_comment_vote_code(d, p) ==
    CASE p.pc = "start" -> api_comment_vote_start(d, p)
      [] p.pc = "existing" -> api_comment_vote_existing(d, p)
      [] p.pc = "write" -> api_comment_vote_write(d, p)
      [] p.pc = "counts" -> api_comment_vote_counts(d, p)

\* POST /api/comment-report: the comment is looked up
api_comment_report_start(d, p) ==
    IF p.a.id \notin DOMAIN d.comments
    THEN Result(d, Return(p, 404, "Comment not found"))
    ELSE Result(d, Goto(p, "existing"))

\* Check if already reported
api_comment_report_existing(d, p) ==
    LET ident == get_identifier(p.a.meta) IN
    IF RowsOf(d.comment_reports, p.a.id, ident) # {}
    THEN Result(d, Return(p, 200, "Already reported"))
    ELSE Result(d, [Goto(p, "write") EXCEPT !.l.ident = ident])

\* ts is taken, the report is inserted and committed
api_comment_report_write(d, p) ==
    IF ~datetime_has_now THEN Result(d, Raise(p))
    ELSE Result([d EXCEPT !.comment_reports =
                             InsertRow(d.comment_reports, d.seq.comment_reports + 1,
                                       p.a.id, p.l.ident, 0),
                          !.seq.comment_reports = d.seq.comment_reports + 1],
                Goto(p, "counts"))

\* Get report count and upvotes
api_comment_report_counts(d, p) ==
    Result(d, [Goto(p, "delete") EXCEPT
                 !.l.cnt = ReportCount(d.comment_reports, p.a.id),
                 !.l.up = Upvotes(d.comment_votes, p.a.id)])

\* Delete if more than 10% of upvotes reported it
api_comment_report_delete(d, p) ==
    LET hit == p.l.up > 0 /\ OverTenth(p.l.cnt, p.l.up) IN
    Result(IF hit THEN [d EXCEPT !.comments = Remove(d.comments, {p.a.id})] ELSE d,
           [Return(p, 200, "ok") EXCEPT !.r.reports = p.l.cnt, !.r.flag = hit])

api_comment_report_code(d, p) ==
    CASE p.pc = "start" -> api_comment_report_start(d, p)
      [] p.pc = "existing" -> api_comment_report_existing(d, p)
      [] p.pc = "write" -> api_comment_report_write(d, p)
      [] p.pc = "counts" -> api_comment_report_counts(d, p)
      [] p.pc = "delete" -> api_comment_report_delete(d, p)

(* -------------------------- admin handlers ---------------------------- *)
\* verify_admin_token fails
Unauthorized(d, p) == Result(d, Return(p, 401, "Unauthorized"))

\* variant: the soft delete also unpins the entry
delete_entry_admin_code_unpin(d, p, t) ==
    IF ~p.a.admin THEN Unauthorized(d, p)
    ELSE Result(IF p.a.id \in DOMAIN d.entries
                THEN [d EXCEPT !.entries[p.a.id].deleted = 1,
                               !.entries[p.a.id].deleted_at = t,
                               !.entries[p.a.id].is_pinned = 0]
                ELSE d,
                Return(p, 200, "Entry moved to recycle bin"))

\* DELETE /api/admin/entries/<id>
delete_entry_admin_code(d, p, t) ==
    IF ~p.a.admin THEN Unauthorized(d, p)
    ELSE Result(IF p.a.id \in DOMAIN d.entries
                THEN [d EXCEPT !.entries[p.a.id].deleted = 1,
                               !.entries[p.a.id].deleted_at = t]
                ELSE d,
                Return(p, 200, "Entry moved to recycle bin"))

\* variant: restore also clears the archived flag
restore_entry_admin_code_reset(d, p) ==
    IF ~p.a.admin THEN Unauthorized(d, p)
    ELSE Result(IF p.a.id \in DOMAIN d.entries
                THEN [d EXCEPT !.entries[p.a.id].deleted = 0,
                               !.entries[p.a.id].archived = 0]
                ELSE d,
                Return(p, 200, "Entry restored"))

\* POST /api/admin/entries/<id>/restore
restore_entry_admin_code(d, p) ==
    IF ~p.a.admin THEN Unauthorized(d, p)
    ELSE Result(IF p.a.id \in DOMAIN d.entries
                THEN [d EXCEPT !.entries[p.a.id].deleted = 0]
                ELSE d,
                Return(p, 200, "Entry restored"))

\* variant: the purge leaves the comments of the entry
permanently_delete_entry_code_entry_only(d, p) ==
    IF ~p.a.admin THEN Unauthorized(d, p)
    ELSE Result([d EXCEPT !.entries = Remove(d.entries, {p.a.id})],
                Return(p, 200, "Entry permanently deleted"))

\* DELETE /api/admin/entries/<id>/permanent
permanently_delete_entry_code(d, p) ==
    IF ~p.a.admin THEN Unauthorized(d, p)
    ELSE Result([d EXCEPT !.entries = Remove(d.entries, {p.a.id}),
                          !.comments = Remove(d.comments,
                               {c \in DOMAIN d.comments : d.comments[c].entry_id = p.a.id})],
                Return(p, 200, "Entry permanently deleted"))

\* POST /api/admin/entries/<id>/pin
pin_entry_code(d, p) ==
    IF ~p.a.admin THEN Unauthorized(d, p)
    ELSE IF p.a.id \notin DOMAIN d.entries THEN Result(d, Return(p, 404, "Entry not found"))
    ELSE LET new_status == 1 - d.entries[p.a.id].is_pinned IN
         Result([d EXCEPT !.entries[p.a.id].is_pinned = new_status],
                [Return(p, 200, IF new_status # 0 THEN "Entry pinned" ELSE "Entry unpinned")
                   EXCEPT !.r.vote = new_status])

\* variant: no clamp
Max_unclamped(a, b) == b

Max(a, b) == IF a > b THEN a ELSE b

\* POST /api/admin/entries/<id>/adjust-votes
adjust_entry_votes_code(d, p) ==
    IF ~p.a.admin THEN Unauthorized(d, p)
    ELSE IF p.a.id \notin DOMAIN d.entries THEN Result(d, Return(p, 404, "Entry not found"))
    ELSE LET new_upvotes == Max(0, d.entries[p.a.id].upvotes + p.a.v)
             new_downvotes == Max(0, d.entries[p.a.id].downvotes + p.a.w)
         IN  Result([d EXCEPT !.entries[p.a.id].upvotes = new_upvotes,
                              !.entries[p.a.id].downvotes = new_downvotes,
                              !.entries[p.a.id].manipulated = 1],
                    [Return(p, 200, "Votes adjusted") EXCEPT !.r.upvotes = new_upvotes,
                                                             !.r.downvotes = new_downvotes])

\* POST /api/entries/<id>/view
\* the increment without the deleted = 0 condition of its SELECT
increment_entry_view_code_any(d, p) ==
    IF p.a.id \notin DOMAIN d.entries
    THEN Result(d, Return(p, 404, "Entry not found"))
    ELSE Result([d EXCEPT !.entries[p.a.id].view_count = d.entries[p.a.id].view_count + 1],
                Return(p, 200, "view incremented"))

increment_entry_view_code(d, p) ==
    IF p.a.id \notin DOMAIN d.entries \/ d.entries[p.a.id].deleted # 0
    THEN Result(d, Return(p, 404, "Entry not found"))
    ELSE Result([d EXCEPT !.entries[p.a.id].view_count = d.entries[p.a.id].view_count + 1],
                Return(p, 200, "view incremented"))

\* ORDER BY e.id DESC
RECURSIVE OrderByIdDesc(_)
OrderByIdDesc(S) ==
    IF S = {} THEN <<>>
    ELSE LET first == CHOOSE x \in S : \A y \in S : x >= y
         IN  <<first>> \o OrderByIdDesc(S \ {first})

\* the recycle bin of admin_data: SELECT ... WHERE e.deleted=1 ORDER BY e.id DESC
DeletedListing(d) ==
    LET ids == OrderByIdDesc({e \in DOMAIN d.entries : d.entries[e].deleted = 1})
    IN  [i \in 1..Len(ids) |-> EntryView(d, ids[i])]

\* GET /api/admin/data: reads only; list is the deleted_entries of the answer
admin_data_code(d, p) ==
    IF ~p.a.admin THEN Unauthorized(d, p)
    ELSE Result(d, [Return(p, 200, "") EXCEPT !.r.list = DeletedListing(d)])

(* ----------------------- running the handlers ------------------------- *)
\* one statement of the handler of request p, at time t
Step(d, p, t) ==
    CASE p.op = "submit" -> api_submit_code(d, p, t)
      [] p.op = "entries" -> api_entries_code(d, p, t)
      [] p.op = "vote" -> api_vote_code(d, p)
      [] p.op = "report" -> api_report_code(d, p)
      [] p.op = "comment" -> api_post_comment_code(d, p)
      [] p.op = "comment_vote" -> api_comment_vote_code(d, p)
      [] p.op = "comment_report" -> api_comment_report_code(d, p)
      [] p.op = "delete" -> delete_entry_admin_code(d, p, t)
      [] p.op = "restore" -> restore_entry_admin_code(d, p)
      [] p.op = "permanent" -> permanently_delete_entry_code(d, p)
      [] p.op = "pin" -> pin_entry_code(d, p)
      [] p.op = "adjust" -> adjust_entry_votes_code(d, p)
      [] p.op = "view" -> increment_entry_view_code(d, p)
      [] p.op = "admin_data" -> admin_data_code(d, p)

\* the handler run to its return, no other request in between
RECURSIVE Run(_, _, _)
Run(d, p, t) ==
    IF p.pc = "done" THEN Result(d, p)
    ELSE LET s == Step(d, p, t) IN Run(s.d, s.p, t)

\* the model's bounds on the counters the code lets grow without limit
Bounded(d) ==
    /\ d.seq.entries <= MaxEntries
    /\ d.seq.votes <= MaxRows
    /\ d.seq.reports <= MaxRows
    /\ d.seq.comments <= MaxRows
    /\ d.seq.comment_votes <= MaxRows
    /\ d.seq.comment_reports <= MaxRows
    /\ \A e \in DOMAIN d.entries :
          /\ d.entries[e].view_count <= MaxViews
          /\ d.entries[e].upvotes <= MaxStored
          /\ d.entries[e].downvotes <= MaxStored

\* request r is a castVote on an entry that passes the handler's validation
\* (a value of +1 or -1, an entry that exists and is not archived)
Validated(d, r) == r.op = "vote" /\ api_vote_start(d, r).p.pc = "existing"

\* the database after request r was handled from arrival to response at time t
Effect(d, r, t) == Run(d, r, t).d

\* the response to request r
Response(d, r, t) == Run(d, r, t).p.r

Args(id, meta, v, w) == [NoArgs EXCEPT !.id = id, !.meta = meta, !.v = v, !.w = w]
AdminArgs(id, admin, v, w) == [NoArgs EXCEPT !.id = id, !.admin = admin, !.v = v, !.w = w]
NoMeta == NoArgs.meta

(* --------------------- the requests of each route --------------------- *)
SubmitRequests ==
    {Request("submit", [NoArgs EXCEPT !.text = text, !.tags = tags]) :
        text \in Contents, tags \in Tags}
EntriesRequests == {Request("entries", Args(0, NoMeta, limit, 0)) : limit \in Limits}
VoteRequests ==
    {Request("vote", Args(e, m, v, 0)) : e \in EntryIds, m \in Metas, v \in VoteValues}
ReportRequests == {Request("report", Args(e, m, 0, 0)) : e \in EntryIds, m \in Metas}
CommentRequests ==
    {Request("comment", [Args(e, m, 0, 0) EXCEPT !.text = text]) :
        e \in EntryIds, m \in Metas, text \in Contents}
CommentVoteRequests ==
    {Request("comment_vote", Args(c, m, v, 0)) : c \in CommentIds, m \in Metas, v \in VoteValues}
CommentReportRequests ==
    {Request("comment_report", Args(c, m, 0, 0)) : c \in CommentIds, m \in Metas}
AdminRequests(op) ==
    {Request(op, AdminArgs(e, admin, 0, 0)) : e \in EntryIds, admin \in BOOLEAN}
AdjustRequests ==
    {Request("adjust", AdminArgs(e, admin, du, dd)) :
        e \in EntryIds, admin \in BOOLEAN, du \in Deltas, dd \in Deltas}
ViewRequests == {Request("view", Args(e, NoMeta, 0, 0)) : e \in EntryIds}
AdminDataRequests == {Request("admin_data", AdminArgs(0, admin, 0, 0)) : admin \in BOOLEAN}

Requests ==
    SubmitRequests \cup EntriesRequests \cup VoteRequests \cup ReportRequests
    \cup CommentRequests \cup CommentVoteRequests \cup CommentReportRequests
    \cup AdminRequests("delete") \cup AdminRequests("restore")
    \cup AdminRequests("permanent") \cup AdminRequests("pin")
    \cup AdjustRequests \cup ViewRequests \cup AdminDataRequests

(* ------------------ requests handled one after another ---------------- *)
api_submit ==
    \E r \in SubmitRequests :
        LET d == Effect(DB, r, now) IN
        /\ Bounded(d)
        /\ SetDB(d)
        /\ UNCHANGED <<now, procs, cast>>

api_entries ==
    \E r \in EntriesRequests :
        LET d == Effect(DB, r, now) IN
        /\ Bounded(d)
        /\ SetDB(d)
        /\ UNCHANGED <<now, procs, cast>>

api_vote ==
    \E r \in VoteRequests :
        LET d == Effect(DB, r, now) IN
        /\ Bounded(d)
        /\ SetDB(d)
        /\ cast' = (cast \/ Validated(DB, r))
        /\ UNCHANGED <<now, procs>>

api_report ==
    \E r \in ReportRequests :
        LET d == Effect(DB, r, now) IN
        /\ Bounded(d)
        /\ SetDB(d)
        /\ UNCHANGED <<now, procs, cast>>

api_post_comment ==
    \E r \in CommentRequests :
        LET d == Effect(DB, r, now) IN
        /\ Bounded(d)
        /\ SetDB(d)
        /\ UNCHANGED <<now, procs, cast>>

api_comment_vote ==
    \E r \in CommentVoteRequests :
        LET d == Effect(DB, r, now) IN
        /\ Bounded(d)
        /\ SetDB(d)
        /\ UNCHANGED <<now, procs, cast>>

api_comment_report ==
    \E r \in CommentReportRequests :
        LET d == Effect(DB, r, now) IN
        /\ Bounded(d)
        /\ SetDB(d)
        /\ UNCHANGED <<now, procs, cast>>

delete_entry_admin ==
    \E r \in AdminRequests("delete") :
        LET d == Effect(DB, r, now) IN
        /\ Bounded(d)
        /\ SetDB(d)
        /\ UNCHANGED <<now, procs, cast>>

restore_entry_admin ==
    \E r \in AdminRequests("restore") :
        LET d == Effect(DB, r, now) IN
        /\ Bounded(d)
        /\ SetDB(d)
        /\ UNCHANGED <<now, procs, cast>>

permanently_delete_entry ==
    \E r \in AdminRequests("permanent") :
        LET d == Effect(DB, r, now) IN
        /\ Bounded(d)
        /\ SetDB(d)
        /\ UNCHANGED <<now, procs, cast>>

pin_entry ==
    \E r \in AdminRequests("pin") :
        LET d == Effect(DB, r, now) IN
        /\ Bounded(d)
        /\ SetDB(d)
        /\ UNCHANGED <<now, procs, cast>>

adjust_entry_votes ==
    \E r \in AdjustRequests :
        LET d == Effect(DB, r, now) IN
        /\ Bounded(d)
        /\ SetDB(d)
        /\ UNCHANGED <<now, procs, cast>>

increment_entry_view ==
    \E r \in ViewRequests :
        LET d == Effect(DB, r, now) IN
        /\ Bounded(d)
        /\ SetDB(d)
        /\ UNCHANGED <<now, procs, cast>>

admin_data ==
    \E r \in AdminDataRequests :
        LET d == Effect(DB, r, now) IN
        /\ Bounded(d)
        /\ SetDB(d)
        /\ UNCHANGED <<now, procs, cast>>

\* time passes
Tick ==
    /\ \E days \in TickDays : now + days <= MaxTime /\ now' = now + days
    /\ UNCHANGED <<entries, votes, reports, comments, comment_votes, comment_reports,
                   seq, archive_files, archive_log, procs, cast>>

Init ==
    /\ entries = init_db.entries
    /\ votes = init_db.votes
    /\ reports = init_db.reports
    /\ comments = init_db.comments
    /\ comment_votes = init_db.comment_votes
    /\ comment_reports = init_db.comment_reports
    /\ seq = init_db.seq
    /\ archive_files = init_db.archive_files
    /\ archive_log = init_db.archive_log
    /\ now = 0
    /\ procs = [i \in 1..MaxProcs |-> Idle]
    /\ cast = FALSE

Next ==
    \/ api_submit
    \/ api_entries
    \/ api_vote
    \/ api_report
    \/ api_post_comment
    \/ api_comment_vote
    \/ api_comment_report
    \/ delete_entry_admin
    \/ restore_entry_admin
    \/ permanently_delete_entry
    \/ pin_entry
    \/ adjust_entry_votes
    \/ increment_entry_view
    \/ admin_data
    \/ Tick

Spec == Init /\ [][Next]_vars

(* ------------------ requests handled at the same time ----------------- *)
\* Flask serves each request on its own thread with its own connection; a
\* handler's statements interleave with those of the other requests in flight.
\* Handlers of a single statement (or a single transaction) are the actions above.
ConcRequests ==
    VoteRequests \cup ReportRequests \cup CommentRequests
    \cup CommentVoteRequests \cup CommentReportRequests

\* request r arrives on thread i and runs its first statement
Begin(i) ==
    /\ procs[i].pc = "done"
    /\ \E r \in ConcRequests :
          LET s == Step(DB, r, now) IN
          /\ Bounded(s.d)
          /\ SetDB(s.d)
          /\ procs' = [procs EXCEPT ![i] = IF s.p.pc = "done" THEN Idle ELSE s.p]
          /\ cast' = (cast \/ Validated(DB, r))
    /\ UNCHANGED now

\* thread i runs the next statement of its handler
Continue(i) ==
    /\ procs[i].pc # "done"
    /\ LET s == Step(DB, procs[i], now) IN
          /\ Bounded(s.d)
          /\ SetDB(s.d)
          /\ procs' = [procs EXCEPT ![i] = IF s.p.pc = "done" THEN Idle ELSE s.p]
    /\ UNCHANGED <<now, cast>>

NextConc ==
    \/ api_submit
    \/ permanently_delete_entry
    \/ \E i \in 1..MaxProcs : Begin(i)
    \/ \E i \in 1..MaxProcs : Continue(i)

SpecConc == Init /\ [][NextConc]_vars

(* ============================ properties ============================== *)
Key(row) == <<row.target, row.identifier, row.identifier_type>>

OnePerIdentifier(ledger) == \A x \in ledger, y \in ledger : Key(x) = Key(y) => x = y

\* the ledger rows of one target
Ledger(ledger, t) == {x \in ledger : x.target = t}

Net(ledger, t) == Upvotes(ledger, t) - Downvotes(ledger, t)

Abs(n) == IF n < 0 THEN 0 - n ELSE n

\* a castVote with a value in {+1,-1} on an existing, non-archived entry
EntryVote(d, r) ==
    /\ r.a.v \in {1, 0 - 1}
    /\ r.a.id \in DOMAIN d.entries
    /\ d.entries[r.a.id].archived = 0

\* a castVote with a value in {+1,-1} on an existing comment
CommentVote(d, r) == r.a.v \in {1, 0 - 1} /\ r.a.id \in DOMAIN d.comments

\* the rows that were added to a ledger are exactly one row of request r
AddsOneRow(before, after, r) ==
    /\ before \subseteq after
    /\ Cardinality(after \ before) = 1
    /\ \A x \in after \ before :
          /\ Key(x) = <<r.a.id, get_identifier(r.a.meta)[2], get_identifier(r.a.meta)[1]>>
          /\ x.vote = r.a.v

Opposite(r) == [r EXCEPT !.a.v = 0 - r.a.v]

\* C1: after any sequence of castVote requests handled one after another, on
\* entries and on comments, each ledger holds at most one row per (target id,
\* identifier value, identifier type).
C1_OneVoteRowPerIdentifier ==
    /\ OnePerIdentifier(votes)
    /\ OnePerIdentifier(comment_votes)

\* C1 witness: a castVote request on a stored, non-archived entry has been
\* handled.
C1_VotesWereCast ==
    /\ cast
    /\ \E e \in DOMAIN entries : entries[e].archived = 0

\* two requests in flight on threads i and j are fileReports of one identifier
\* on one entry; both have run the existence check (lines 459-461) and neither
\* has written
BothPassedTheCheck(i, j) ==
    /\ i # j
    /\ procs[i].op = "report" /\ procs[j].op = "report"
    /\ procs[i].pc = "write" /\ procs[j].pc = "write"
    /\ procs[i].a.id = procs[j].a.id
    /\ get_identifier(procs[i].a.meta) = get_identifier(procs[j].a.meta)

C3_FirstVoteAddsOneRow ==
    /\ \A r \in VoteRequests :
          (EntryVote(DB, r) /\ RowsOf(votes, r.a.id, get_identifier(r.a.meta)) = {}) =>
             LET s == Run(DB, r, now) IN
             /\ s.p.r.status = 200
             /\ AddsOneRow(votes, s.d.votes, r)
             /\ s.p.r.upvotes = Upvotes(s.d.votes, r.a.id)
             /\ s.p.r.downvotes = Downvotes(s.d.votes, r.a.id)
    /\ \A r \in CommentVoteRequests :
          (CommentVote(DB, r)
             /\ RowsOf(comment_votes, r.a.id, get_identifier(r.a.meta)) = {}) =>
             LET s == Run(DB, r, now) IN
             /\ s.p.r.status = 200
             /\ AddsOneRow(comment_votes, s.d.comment_votes, r)
             /\ s.p.r.upvotes = Upvotes(s.d.comment_votes, r.a.id)
             /\ s.p.r.downvotes = Downvotes(s.d.comment_votes, r.a.id)

\* C4: the same vote value cast a second time by the same identifier on the
\* same target is a no-op: both calls report success, and after the second call
\* the ledger rows and the target's counts are those after the first call.
C4_SameVoteTwiceIsNoOp ==
    /\ \A r \in VoteRequests :
          EntryVote(DB, r) =>
             LET s1 == Run(DB, r, now)
                 s2 == Run(s1.d, r, now)
             IN  /\ s1.p.r.status = 200
                 /\ s2.p.r.status = 200
                 /\ s2.d.votes = s1.d.votes
                 /\ Counts(s2.d.votes, r.a.id) = Counts(s1.d.votes, r.a.id)
    /\ \A r \in CommentVoteRequests :
          CommentVote(DB, r) =>
             LET s1 == Run(DB, r, now)
                 s2 == Run(s1.d, r, now)
             IN  /\ s1.p.r.status = 200
                 /\ s2.p.r.status = 200
                 /\ s2.d.comment_votes = s1.d.comment_votes
                 /\ Counts(s2.d.comment_votes, r.a.id) = Counts(s1.d.comment_votes, r.a.id)

\* C5: when an identifier that holds a vote on a target (it has just cast it)
\* casts the opposite value, the row is overwritten in place: the number of the
\* target's rows is unchanged, one of the two counts drops by one and the other
\* rises by one, and the net tally changes by exactly 2.
FlipsInPlace(before, after, t) ==
    /\ Cardinality(Ledger(after, t)) = Cardinality(Ledger(before, t))
    /\ \/ /\ Upvotes(after, t) = Upvotes(before, t) - 1
          /\ Downvotes(after, t) = Downvotes(before, t) + 1
       \/ /\ Upvotes(after, t) = Upvotes(before, t) + 1
          /\ Downvotes(after, t) = Downvotes(before, t) - 1
    /\ Abs(Net(after, t) - Net(before, t)) = 2

C5_OppositeVoteFlipsByTwo ==
    /\ \A r \in VoteRequests :
          EntryVote(DB, r) =>
             LET s1 == Run(DB, r, now)
                 s2 == Run(s1.d, Opposite(r), now)
             IN  FlipsInPlace(s1.d.votes, s2.d.votes, r.a.id)
    /\ \A r \in CommentVoteRequests :
          CommentVote(DB, r) =>
             LET s1 == Run(DB, r, now)
                 s2 == Run(s1.d, Opposite(r), now)
             IN  FlipsInPlace(s1.d.comment_votes, s2.d.comment_votes, r.a.id)

\* C6: a second fileReport of the same identifier on the same target (entry or
\* comment that the first report left in place) returns success, inserts no
\* second row, leaves the target's report count unchanged and triggers no
\* archival or deletion.
C6_SecondReportIsNoOp ==
    /\ \A r \in ReportRequests :
          (r.a.id \in DOMAIN entries /\ entries[r.a.id].archived = 0) =>
             LET s1 == Run(DB, r, now)
                 s2 == Run(s1.d, r, now)
             IN  /\ s2.p.r.status = 200
                 /\ s2.d.reports = s1.d.reports
                 /\ ReportCount(s2.d.reports, r.a.id) = ReportCount(s1.d.reports, r.a.id)
                 /\ s2.d.entries = s1.d.entries
                 /\ s2.d.comments = s1.d.comments
    /\ \A r \in CommentReportRequests :
          r.a.id \in DOMAIN comments =>
             LET s1 == Run(DB, r, now)
                 s2 == Run(s1.d, r, now)
             IN  r.a.id \in DOMAIN s1.d.comments =>
                 /\ s2.p.r.status = 200
                 /\ s2.d.comment_reports = s1.d.comment_reports
                 /\ s2.d.entries = s1.d.entries
                 /\ s2.d.comments = s1.d.comments

\* a fileReport on an existing, non-archived entry by an identifier that has not
\* reported it
NewEntryReport(d, r) ==
    /\ r.a.id \in DOMAIN d.entries
    /\ d.entries[r.a.id].archived = 0
    /\ RowsOf(d.reports, r.a.id, get_identifier(r.a.meta)) = {}

\* C7: a new report on a non-archived entry sets the entry's archived flag if
\* and only if, counting the new report, the upvote count U and the report
\* count R satisfy U > 0 and 4*R > U; an entry with U = 0 is never archived.
\* U = 4, R = 2 archives and U = 10, R = 2 does not.  The first conjunct is the
\* report as it finds the ledger; the second is the report that follows a first
\* upvote of another request, which counts in U.
C7_ReportArchivesOverQuarter ==
    /\ \A r \in ReportRequests :
          NewEntryReport(DB, r) =>
             LET s == Run(DB, r, now)
                 U == Upvotes(votes, r.a.id)
                 R == ReportCount(reports, r.a.id) + 1
             IN  (s.d.entries[r.a.id].archived = 1) <=> (U > 0 /\ 4 * R > U)
    /\ \A q \in VoteRequests, r \in ReportRequests :
          (/\ EntryVote(DB, q) /\ q.a.v = 1 /\ q.a.id = r.a.id
           /\ RowsOf(votes, q.a.id, get_identifier(q.a.meta)) = {}
           /\ NewEntryReport(DB, r)) =>
             LET s1 == Run(DB, q, now)
                 s2 == Run(s1.d, r, now)
                 U == Upvotes(votes, r.a.id) + 1
                 R == ReportCount(reports, r.a.id) + 1
             IN  (s2.d.entries[r.a.id].archived = 1) <=> (U > 0 /\ 4 * R > U)
    /\ 4 > 0 /\ OverQuarter(2, 4)
    /\ ~(10 > 0 /\ OverQuarter(2, 10))

CommentReport(c, m) == Request("comment_report", Args(c, m, 0, 0))
CommentUpvote(c, m) == Request("comment_vote", Args(c, m, 1, 0))

\* a postComment with content on an entry that is neither archived nor deleted
NewComment(d, c) ==
    /\ sanitize(c.a.text) # <<>>
    /\ c.a.id \in DOMAIN d.entries
    /\ d.entries[c.a.id].archived = 0
    /\ d.entries[c.a.id].deleted = 0

\* C8: a new report on a comment hard-deletes the comment row if and only if,
\* counting the new report, the comment's upvote count U and report count R
\* satisfy U > 0 and 10*R > U; with U = 10 it survives R = 1 and is deleted at
\* R = 2, and with U = 0 it is never deleted.  The first conjunct is the report
\* as it finds the ledgers; the second is the first report on a comment just
\* posted (U = 0); the third is the report that follows the comment's first
\* upvote (U = 1, R = 1).
C8_ReportDeletesCommentOverTenth ==
    /\ \A r \in CommentReportRequests :
          (/\ r.a.id \in DOMAIN comments
           /\ RowsOf(comment_reports, r.a.id, get_identifier(r.a.meta)) = {}) =>
             LET s == Run(DB, r, now)
                 U == Upvotes(comment_votes, r.a.id)
                 R == ReportCount(comment_reports, r.a.id) + 1
             IN  (r.a.id \notin DOMAIN s.d.comments) <=> (U > 0 /\ 10 * R > U)
    /\ \A c \in CommentRequests, m \in Metas :
          NewComment(DB, c) =>
             LET id == seq.comments + 1
                 s1 == Run(DB, c, now)
                 s2 == Run(s1.d, CommentReport(id, m), now)
             IN  id \in DOMAIN s2.d.comments
    /\ \A c \in CommentRequests, m1 \in Metas, m2 \in Metas :
          NewComment(DB, c) =>
             LET id == seq.comments + 1
                 s1 == Run(DB, c, now)
                 s2 == Run(s1.d, CommentUpvote(id, m1), now)
                 s3 == Run(s2.d, CommentReport(id, m2), now)
             IN  /\ id \in DOMAIN s2.d.comments
                 /\ id \notin DOMAIN s3.d.comments
    /\ ~(10 > 0 /\ OverTenth(1, 10))
    /\ 10 > 0 /\ OverTenth(2, 10)

Public(e) == e \in DOMAIN entries /\ entries[e].archived = 0 /\ entries[e].deleted = 0

\* C9: no entry that is still public (archived flag clear, not soft-deleted)
\* has a report-to-upvote ratio above the threshold: with U > 0 upvotes in the
\* ledger and R reports, 4*R <= U.
C9_PublicEntriesUnderThreshold ==
    \A e \in DOMAIN entries :
        (Public(e) /\ Upvotes(votes, e) > 0) =>
            4 * ReportCount(reports, e) <= Upvotes(votes, e)

\* the database with the archived flag of entry e set
Archived(e) == [DB EXCEPT !.entries[e].archived = 1]

\* C10: archival is monotonic: once the archived flag of an entry is set, no
\* request (vote, report, comment, soft delete, restore, pin toggle, vote
\* adjustment, view increment, listing with its reaper) clears it in an entry
\* it leaves in storage; and restore changes nothing of an entry but its
\* soft-delete flag.
C10_ArchivedIsNeverCleared ==
    \A r \in Requests, e \in DOMAIN entries :
        LET s == Run(Archived(e), r, now)
            t == Run(DB, r, now)
        IN  /\ e \in DOMAIN s.d.entries => s.d.entries[e].archived = 1
            /\ (r.op = "restore" /\ e \in DOMAIN t.d.entries) =>
                  t.d.entries[e] = [entries[e] EXCEPT !.deleted =
                                      IF r.a.admin /\ r.a.id = e THEN 0 ELSE @]

\* C10 witness: an entry that was soft-deleted and restored.
C10_RestoredEntry ==
    \E e \in DOMAIN entries : entries[e].deleted = 0 /\ entries[e].deleted_at # NULL

Admin(op, e) == Request(op, AdminArgs(e, TRUE, 0, 0))

\* the listing request with the limit given (NULL: no limit parameter)
Listing(limit) == Request("entries", Args(0, NoMeta, limit, 0))

\* the ids of the public listing answered at time t to a request with a
\* negative limit, which SQLite reads as no limit
ListedIds(d, t) ==
    LET list == Response(d, Listing(0 - 5), t).list
    IN  {list[i].id : i \in 1..Len(list)}

\* C11: for an entry in the public listing, an admin soft delete followed by an
\* admin restore (no reaper removal in between) puts it back in the public
\* listing with its content, tags, pinned flag, view count and vote rows
\* unchanged; while it is soft-deleted the public listing does not show it, at
\* whatever time and with whatever limit it is asked.
C11_DeleteThenRestore ==
    \A e \in ListedIds(DB, now) :
        LET s1 == Run(DB, Admin("delete", e), now)
            s2 == Run(Effect(s1.d, Listing(NULL), now), Admin("restore", e), now)
        IN  /\ \A t \in now..MaxTime : e \notin ListedIds(s1.d, t)
            /\ e \in ListedIds(s2.d, now)
            /\ \A limit \in Limits :
                  Response(s2.d, Listing(limit), now).list
                     = Response(DB, Listing(limit), now).list
            /\ s2.d.entries[e].content = entries[e].content
            /\ s2.d.entries[e].tags = entries[e].tags
            /\ s2.d.entries[e].is_pinned = entries[e].is_pinned
            /\ s2.d.entries[e].view_count = entries[e].view_count
            /\ s2.d.votes = votes

\* C11 witness: a pinned entry that was soft-deleted and restored is in the
\* public listing.
C11_RestoredIsListed ==
    \E e \in ListedIds(DB, now) :
        entries[e].deleted_at # NULL /\ entries[e].is_pinned = 1

\* database d with one more comment row, attached to entry e: the row the
\* INSERT of api_post_comment (line 571) stores
Commented(d, e) ==
    LET id == d.seq.comments + 1
        row == [entry_id |-> e, content |-> <<"t">>,
                identifier |-> "a", identifier_type |-> "cookie",
                upvotes |-> 0, downvotes |-> 0, deleted |-> 0]
    IN  [d EXCEPT !.comments = (id :> row) @@ d.comments, !.seq.comments = id]

CommentsOf(d, e) == {c \in DOMAIN d.comments : d.comments[c].entry_id = e}

\* C12: after an admin permanent delete of an entry in any state (active,
\* archived, soft-deleted or restored) the entry row is gone from storage and
\* no comment row referencing the entry remains; the other entries and their
\* comments stay.
C12_PurgeCascades ==
    \A e \in DOMAIN entries, o \in EntryIds :
        \A d0 \in {Commented(Commented(DB, e), o),
                   Commented(Commented(Archived(e), e), o)} :
            LET s == Run(d0, Admin("permanent", e), now) IN
            /\ s.p.r.status = 200
            /\ e \notin DOMAIN s.d.entries
            /\ CommentsOf(s.d, e) = {}
            /\ o # e => /\ CommentsOf(s.d, o) = CommentsOf(d0, o)
                        /\ CommentsOf(s.d, o) # {}
                        /\ (o \in DOMAIN entries =>
                               o \in DOMAIN s.d.entries /\ s.d.entries[o] = entries[o])

\* C12 witness: an entry has been purged (at time 0 the reaper has removed
\* nothing) while another entry, soft-deleted, is stored.
C12_EntryPurged ==
    /\ now = 0
    /\ \E e \in 1..seq.entries : e \notin DOMAIN entries
    /\ \E o \in DOMAIN entries : entries[o].deleted = 1

Expired(t) ==
    {e \in DOMAIN entries :
        /\ entries[e].deleted = 1
        /\ entries[e].deleted_at # NULL
        /\ entries[e].deleted_at + RECYCLE_BIN_RETENTION_DAYS < t}

\* C14: a reaper invocation at time t removes exactly the entries whose
\* soft-deleted flag is set and whose deleted_at is earlier than t minus the
\* 7-day retention period: each of them is gone after a public listing call,
\* and every other entry (not soft-deleted, a restored entry with its old
\* deleted_at among them, or still inside the window) is kept as it was.
C14_ReaperRemovesExactlyExpired ==
    \A r \in EntriesRequests, t \in now..MaxTime :
        LET s == Run(DB, r, t) IN
        /\ DOMAIN s.d.entries = DOMAIN entries \ Expired(t)
        /\ \A e \in DOMAIN s.d.entries : s.d.entries[e] = entries[e]

\* C14 witness: a listing call finds an expired soft-deleted entry, which it
\* removes, and a restored entry with a deleted_at as old, which it keeps.
C14_ExpiredAndRestored ==
    \E e \in Expired(now), o \in DOMAIN entries :
        /\ entries[o].deleted = 0
        /\ entries[o].deleted_at # NULL
        /\ entries[o].deleted_at + RECYCLE_BIN_RETENTION_DAYS < now
        /\ DOMAIN Effect(DB, Listing(NULL), now).entries = DOMAIN entries \ {e}

\* the ids of the recycle-bin listing answered to the admin
RecycleBinIds(d, t) ==
    LET list == Response(d, Request("admin_data", AdminArgs(0, TRUE, 0, 0)), t).list
    IN  {list[i].id : i \in 1..Len(list)}

\* C15: an entry soft-deleted at time T and not restored is, at every time
\* later than T + retention period, absent from the public listing, absent
\* from the admin recycle-bin listing and absent from storage, whatever
\* requests were made in the meantime, none included.
C15_ExpiredIsGone ==
    /\ Expired(now) = {}
    /\ Expired(now) \cap RecycleBinIds(DB, now) = {}
    /\ Expired(now) \cap ListedIds(DB, now) = {}

\* C16: once the manipulated flag of an entry is set by an admin vote
\* adjustment, the stored override counters are what is displayed: the public
\* listing shows the stored upvotes and downvotes of the entry, and a castVote
\* on it returns them, not the counts aggregated from the vote ledger.
C16_OverrideCountersDisplayed ==
    \A e \in DOMAIN entries :
        entries[e].manipulated = 1 =>
            /\ LET list == Response(DB, Listing(0 - 5), now).list IN
               \A i \in 1..Len(list) :
                   list[i].id = e =>
                       /\ list[i].upvotes = entries[e].upvotes
                       /\ list[i].downvotes = entries[e].downvotes
            /\ \A q \in VoteRequests :
                   (EntryVote(DB, q) /\ q.a.id = e) =>
                       LET r == Response(DB, q, now) IN
                       /\ r.upvotes = entries[e].upvotes
                       /\ r.downvotes = entries[e].downvotes

\* the signed deltas of the adjustments tried on each state
SignedDeltas == (0 - 3)..3

\* C17: an admin vote adjustment with signed deltas (du, dd) on an existing
\* entry sets the stored counters to max(0, upvotes + du) and
\* max(0, downvotes + dd), sets manipulated, and returns the two counters; the
\* stored counters of every entry are non-negative in every reachable state.
C17_AdjustClampsAtZero ==
    /\ \A e \in DOMAIN entries : entries[e].upvotes >= 0 /\ entries[e].downvotes >= 0
    /\ \A e \in DOMAIN entries, du \in SignedDeltas, dd \in SignedDeltas :
          LET s == Run(DB, Request("adjust", AdminArgs(e, TRUE, du, dd)), now)
              up == IF entries[e].upvotes + du < 0 THEN 0 ELSE entries[e].upvotes + du
              down == IF entries[e].downvotes + dd < 0 THEN 0 ELSE entries[e].downvotes + dd
          IN  /\ s.d.entries[e] = [entries[e] EXCEPT !.upvotes = up, !.downvotes = down,
                                                      !.manipulated = 1]
              /\ s.p.r.status = 200
              /\ s.p.r.upvotes = up /\ s.p.r.downvotes = down

\* C17 witness: an adjustment has left one counter of an entry at zero and
\* raised the other.
C17_Adjusted ==
    \E e \in DOMAIN entries :
        /\ entries[e].manipulated = 1
        /\ entries[e].upvotes = 0
        /\ entries[e].downvotes = 1

\* the entries of d that are neither archived nor soft-deleted
PublicIds(d) == {e \in DOMAIN d.entries : d.entries[e].archived = 0 /\ d.entries[e].deleted = 0}

\* entry x goes ahead of entry y: pinned ahead of unpinned, then the more recent
\* (ids are handed out in increasing order, the greater id is the more recent)
Precedes(d, x, y) ==
    \/ d.entries[x].is_pinned = 1 /\ d.entries[y].is_pinned = 0
    \/ d.entries[x].is_pinned = d.entries[y].is_pinned /\ x > y

\* list is the public listing of d truncated to n entries
IsPublicListing(d, list, n) ==
    LET shown == {list[i].id : i \in 1..Len(list)} IN
    /\ shown \subseteq PublicIds(d)
    /\ Len(list) = (IF Cardinality(PublicIds(d)) < n THEN Cardinality(PublicIds(d)) ELSE n)
    /\ \A i \in 1..Len(list), j \in 1..Len(list) :
          i < j => Precedes(d, list[i].id, list[j].id)
    /\ \A e \in PublicIds(d) \ shown : \A i \in 1..Len(list) : Precedes(d, list[i].id, e)
    /\ \A i \in 1..Len(list) :
          /\ list[i].content = d.entries[list[i].id].content
          /\ list[i].tags = d.entries[list[i].id].tags
          /\ list[i].is_pinned = d.entries[list[i].id].is_pinned

\* the limits a listing is asked with: 0, 1, 2, 3
RequestedLimits == 0..(MaxEntries + 1)

\* C18: the public listing returns exactly the entries that are neither
\* archived nor soft-deleted, ordered by pinned flag descending and then most
\* recent first, truncated to the requested limit (20 when none is given); it
\* never contains an archived or a soft-deleted entry.  Archived entries are
\* those of the database with the archived flag of an entry set.
C18_ListingIsPublicPinnedRecent ==
    \A d0 \in {DB} \cup {Archived(e) : e \in DOMAIN entries} :
        /\ \A limit \in RequestedLimits :
              IsPublicListing(d0, Response(d0, Listing(limit), now).list, limit)
        /\ IsPublicListing(d0, Response(d0, Listing(NULL), now).list, 20)

\* C18 witness: a pinned older entry and an unpinned newer one are public, and
\* the listing shows the older one first.
C18_PinnedOlderFirst ==
    /\ PublicIds(DB) = {1, 2}
    /\ entries[1].is_pinned = 1 /\ entries[2].is_pinned = 0
    /\ LET list == Response(DB, Listing(NULL), now).list IN
          Len(list) = 2 /\ list[1].id = 1 /\ list[2].id = 2

\* database d after n more submissions: each stores the row that api_submit
\* stores, under the next id
Submitted(d, n) ==
    LET one == Effect(init_db, Request("submit", [NoArgs EXCEPT !.text = <<"t">>]), now)
        ids == (d.seq.entries + 1)..(d.seq.entries + n)
    IN  [d EXCEPT !.entries = [e \in DOMAIN d.entries \cup ids |->
                                 IF e \in ids THEN one.entries[1] ELSE d.entries[e]],
                  !.seq.entries = d.seq.entries + n]

\* C19: for every integer limit a client can request (positive, zero or
\* negative) and every number of stored entries, the public listing returns at
\* most 100 entries, and 20 at most when no limit is given.  The listing is
\* asked of the database after 101 more submissions.
C19_ListingIsCapped ==
    LET d == Submitted(DB, 101) IN
    /\ Len(Response(d, Listing(NULL), now).list) <= 20
    /\ \A limit \in {0, 1, 101, 0 - 5} :
          Len(Response(d, Listing(limit), now).list) <= 100

\* database d with one vote row of identifier `a` (cookie) on entry e
Voted(d, e) ==
    [d EXCEPT !.votes = InsertRow(d.votes, d.seq.votes + 1, e, <<"cookie", "a">>, 1),
              !.seq.votes = d.seq.votes + 1]

\* C20: a castVote (+1 or -1) or a postComment (with content) against an
\* archived entry is rejected with the Locked status, 410, and persists
\* nothing: no vote row is inserted or changed, no comment row is created.
\* The entry is archived with no vote row, and with a vote row of one of the
\* identifiers.
C20_ArchivedEntryIsLocked ==
    \A e \in DOMAIN entries :
        \A d0 \in {Archived(e), Voted(Archived(e), e)} :
            /\ \A q \in VoteRequests :
                  (q.a.id = e /\ q.a.v \in {1, 0 - 1}) =>
                      LET s == Run(d0, q, now) IN
                      s.p.r.status = 410 /\ s.d = d0
            /\ \A c \in CommentRequests :
                  (c.a.id = e /\ sanitize(c.a.text) # <<>>) =>
                      LET s == Run(d0, c, now) IN
                      s.p.r.status = 410 /\ s.d = d0

\* C20 witness: a castVote has been handled on a stored entry, and the same
\* request on the entry once archived is answered 410.
C20_VoteOnArchivedRejected ==
    /\ cast
    /\ \E e \in DOMAIN entries, q \in VoteRequests :
          /\ Validated(DB, q) /\ q.a.id = e
          /\ Response(Archived(e), q, now).status = 410

\* C21: a castVote (+1 or -1), a fileReport or a postComment (with content)
\* against a soft-deleted entry is rejected with the Locked status, 410, and
\* persists nothing: no vote, report or comment row is inserted or changed and
\* the archived flag of the entry is not changed.
C21_SoftDeletedEntryIsLocked ==
    \A e \in DOMAIN entries :
        (entries[e].deleted = 1 /\ entries[e].archived = 0) =>
            /\ \A q \in VoteRequests :
                  (q.a.id = e /\ q.a.v \in {1, 0 - 1}) =>
                      LET s == Run(DB, q, now) IN s.p.r.status = 410 /\ s.d = DB
            /\ \A r \in ReportRequests :
                  r.a.id = e =>
                      LET s == Run(DB, r, now) IN s.p.r.status = 410 /\ s.d = DB
            /\ \A c \in CommentRequests :
                  (c.a.id = e /\ sanitize(c.a.text) # <<>>) =>
                      LET s == Run(DB, c, now) IN s.p.r.status = 410 /\ s.d = DB

\* C22: a fileReport by an identifier that has not yet reported an existing,
\* non-archived entry, and that does not cross the archival threshold,
\* completes successfully, raises the report count of the entry by exactly
\* one, returns the new count, and changes nothing else: the entries (their
\* archived flags among them), the vote rows, the comments and the rows of the
\* other ledgers are as before.
C22_ReportUnderThresholdOnlyCounts ==
    \A r \in ReportRequests :
        LET U == Upvotes(votes, r.a.id)
            R == ReportCount(reports, r.a.id) + 1
        IN  (NewEntryReport(DB, r) /\ ~(U > 0 /\ 4 * R > U)) =>
               LET s == Run(DB, r, now) IN
               /\ s.p.r.status = 200
               /\ s.p.r.reports = R
               /\ ReportCount(s.d.reports, r.a.id) = R
               /\ AddsOneRow(reports, s.d.reports, r)
               /\ s.d.entries = entries
               /\ s.d.votes = votes
               /\ s.d.comments = comments
               /\ s.d.comment_votes = comment_votes
               /\ s.d.comment_reports = comment_reports
               /\ s.d.archive_files = archive_files
               /\ s.d.archive_log = archive_log

\* C23: the view-count increment adds exactly 1 to the view count of an
\* existing entry that is not soft-deleted and changes nothing else; on a
\* soft-deleted or missing entry it answers 404 and changes nothing; and no
\* operation whatever lowers the view count of an entry that it leaves in
\* storage.
C23_ViewCountOnlyGrows ==
    /\ \A v \in ViewRequests :
          LET s == Run(DB, v, now)
              e == v.a.id
          IN  IF e \in DOMAIN entries /\ entries[e].deleted = 0
              THEN /\ s.p.r.status = 200
                   /\ s.d = [DB EXCEPT !.entries[e].view_count = entries[e].view_count + 1]
              ELSE /\ s.p.r.status = 404
                   /\ s.d = DB
    /\ \A r \in Requests :
          LET after == Run(DB, r, now).d.entries
          IN  \A e \in DOMAIN entries \cap DOMAIN after :
                  after[e].view_count >= entries[e].view_count

\* a viewed entry is in the recycle bin, where the increment must refuse
C23_ViewedAndDeleted ==
    \E e \in DOMAIN entries : entries[e].view_count = 1 /\ entries[e].deleted = 1

\* contents that carry markup: a script block alone, an event-handler
\* attribute alone, markup with whitespace around it, markup next to text
MarkupContents ==
    { <<>>, <<" ">>, <<"t">>, <<"S">>, <<"H">>, <<" ", "S", " ">>, <<"S", "H">>,
      <<"t", "S">>, <<"H", " ", "t">> }

\* C24: every entry that submitEntry persists has non-empty sanitized content
\* of at most 2000 characters, and a submission whose content is empty once
\* script blocks and event-handler attributes are stripped is rejected with
\* status 400 and creates no entry row.
C24_PersistedContentIsNotEmpty ==
    \A text \in MarkupContents :
        LET r == Request("submit", [NoArgs EXCEPT !.text = text])
            s == Run(DB, r, now)
        IN  IF sanitize(strip(text)) = <<>>
            THEN s.p.r.status = 400 /\ s.d = DB
            ELSE \A e \in DOMAIN s.d.entries \ DOMAIN entries :
                     /\ s.d.entries[e].content # <<>>
                     /\ s.d.entries[e].content = sanitize(strip(text))
                     /\ TextLen(s.d.entries[e].content) <= 2000

\* thread i is a castVote that has read archived = 0 (line 412) and passed the
\* test of lines 416-417, and has not yet looked its own row up
VotePassedArchivedCheck(i) ==
    /\ procs[i].op = "vote"
    /\ procs[i].pc = "existing"
    /\ procs[i].a.id \in DOMAIN entries

\* the statements of api_vote after line 420: the lookup of line 422 and the
\* UPDATE or INSERT of lines 428-430
VoteAfterCheck(d, p) ==
    LET ident == get_identifier(p.a.meta)
        rows == RowsOf(d.votes, p.a.id, ident)
    IN  api_vote_write(d, [Goto(p, "write") EXCEPT
                              !.l.ident = ident,
                              !.l.existing = IF rows # {} THEN FetchOne(rows).id ELSE 0]).d

LogLines(log, e) == {k \in DOMAIN log : log[k] = e}

\* threads i and j are fileReports of different identifiers on the same
\* entry, both past the archived test of lines 454-455 and the duplicate test
\* of lines 459-461
BothPassedArchivedCheck(i, j) ==
    /\ i # j
    /\ procs[i].op = "report" /\ procs[j].op = "report"
    /\ procs[i].pc = "write" /\ procs[j].pc = "write"
    /\ procs[i].a.id = procs[j].a.id
    /\ procs[i].a.id \in DOMAIN entries
    /\ procs[i].l.ident # procs[j].l.ident

\* the statements of api_report after line 463: the INSERT of line 464, the
\* counts of lines 467-471, the threshold and UPDATE of lines 476-479, the
\* snapshot of lines 481-490 and the log line of lines 492-498
ReportAfterCheck(d, p) ==
    LET d1 == [d EXCEPT !.reports = InsertRow(d.reports, d.seq.reports + 1,
                                              p.a.id, p.l.ident, 0),
                        !.seq.reports = d.seq.reports + 1]
        c == api_report_counts(d1, p)
        s == api_report_archive(c.d, c.p)
    IN  IF s.p.r.flag
        THEN [s.d EXCEPT !.archive_files = d.archive_files \cup {p.a.id},
                         !.archive_log = Append(d.archive_log, p.a.id)]
        ELSE s.d

CommentPassedEntryCheck(i) ==
    /\ procs[i].op = "comment"
    /\ procs[i].pc = "write"

\* the statements of api_post_comment after line 568: the INSERT of line 571
CommentAfterCheck(d, p) ==
    LET ident == get_identifier(p.a.meta)
        id == d.seq.comments + 1
        row == [entry_id |-> p.a.id, content |-> p.l.content,
                identifier |-> ident[2], identifier_type |-> ident[1],
                upvotes |-> 0, downvotes |-> 0, deleted |-> 0]
    IN  [d EXCEPT !.comments = (id :> row) @@ d.comments, !.seq.comments = id]

EveryCommentHasItsEntry(d) ==
    \A c \in DOMAIN d.comments : d.comments[c].entry_id \in DOMAIN d.entries

LeftBehind(d) ==
    LET used == 1..d.seq.entries
    IN  [d EXCEPT
           !.votes = d.votes \cup
               {[id |-> d.seq.votes + e, target |-> e, identifier |-> "a",
                 identifier_type |-> "cookie", vote |-> 1] : e \in used},
           !.seq.votes = d.seq.votes + d.seq.entries,
           !.reports = d.reports \cup
               {[id |-> d.seq.reports + e, target |-> e, identifier |-> "a",
                 identifier_type |-> "cookie", vote |-> 0] : e \in used},
           !.seq.reports = d.seq.reports + d.seq.entries]

\* C28: entry ids are never reused. Every entry in storage has an id that was
\* handed out; no operation lowers the id counter or creates an entry under an
\* id handed out before, removed entries included; and an entry submitted
\* while vote and report rows of every earlier id are still in the ledgers
\* starts with zero upvotes, zero downvotes and zero reports.
C28_EntryIdsNeverReused ==
    /\ DOMAIN entries \subseteq 1..seq.entries
    /\ \A r \in Requests :
          LET s == Run(DB, r, now).d
          IN  /\ s.seq.entries >= seq.entries
              /\ \A e \in DOMAIN s.entries \ DOMAIN entries : e > seq.entries
    /\ \A r \in SubmitRequests :
          LET left == LeftBehind(DB)
              s == Run(left, r, now).d
          IN  \A e \in DOMAIN s.entries \ DOMAIN entries :
                  /\ e > seq.entries
                  /\ EntryView(s, e).upvotes = 0
                  /\ EntryView(s, e).downvotes = 0
                  /\ EntryView(s, e).reports = 0
                  /\ s.entries[e].upvotes = 0 /\ s.entries[e].downvotes = 0

\* entry 1 has been removed and entry 2, the later one, is in storage
C28_LaterEntryAfterRemoval ==
    /\ DOMAIN entries = {2}
    /\ seq.entries = 2

====
